---- MODULE Spec2Model ----
(***************************************************************************)
(* Padel match counter (src/src/app/page.tsx): the match state held by the *)
(* Home component, its handlers, the effects that mirror it to             *)
(* localStorage, and the file import / export.                             *)
(*                                                                         *)
(* A JavaScript string is a sequence of chunks; the chunk " " is white     *)
(* space.  JSON text is a tree of tagged records.  Array index i of the    *)
(* code is index i + 1 of a sequence here.                                 *)
(*                                                                         *)
(* React: a state update made in a user event is rendered, and the effects *)
(* of that render run, before the next event; an update made in an effect  *)
(* or in reader.onload leaves a render pending, which a key press can      *)
(* overtake.                                                               *)
(***************************************************************************)
EXTENDS Integers, Sequences, FiniteSets, TLC

VARIABLES
    matchState,      \* useState<MatchState>: the current value of the state
    playerNames,     \* useState(['', '', '', ''])
    store,           \* localStorage, the value under 'padelMatch'
    rendered,        \* the matchState of the last committed render (closures)
    listening,       \* a keydown listener is registered on window
    handlerStarted,  \* matchState.isGameStarted captured by that listener
    mounted,         \* the mount effects have run
    dirty,           \* a state update waits for its render
    crashed,         \* a render threw: the component tree is gone
    reads,           \* FileReader reads in flight, in request order: the
                     \* text of each file, the state it was exported from,
                     \* and, where overlapping imports are followed, whether
                     \* a read requested later has completed
    message,         \* the last dialog shown by the import handler
    download,        \* the file exportMatchData produced, when that was the
                     \* last event
    origin,          \* which operation installed the current match state
    appended,        \* the incrementStat calls made since then
    lastImport       \* an accepted import that is the latest event: the
                     \* answer to its confirmation and the store before it

vars == <<matchState, playerNames, store, rendered, listening, handlerStarted,
          mounted, dirty, crashed, reads, message, download,
          origin, appended, lastImport>>

----------------------------------------------------------------------------
(* Bounds *)

MaxHistory == 2      \* incrementStat is not taken beyond this log length
MaxReads == 1        \* file reads in flight at once
MaxOverlap == 2      \* the same in a session of overlapping imports

----------------------------------------------------------------------------
(* Strings *)

Str(lit) == <<lit>>
Blank == <<>>

RECURSIVE TrimStart(_)
TrimStart(s) == IF s # <<>> /\ Head(s) = " " THEN TrimStart(Tail(s)) ELSE s

RECURSIVE TrimEnd(_)
TrimEnd(s) ==
    IF s # <<>> /\ s[Len(s)] = " " THEN TrimEnd(SubSeq(s, 1, Len(s) - 1)) ELSE s

Trim(s) == TrimEnd(TrimStart(s))

Map(f(_), s) == [i \in 1..Len(s) |-> f(s[i])]

----------------------------------------------------------------------------
(* JSON text *)

Garbage == [t |-> "garbage"]
JNull == [t |-> "null"]
JNum(n) == [t |-> "num", n |-> n]
JStr(s) == [t |-> "str", s |-> s]
JBool(b) == [t |-> "bool", b |-> b]
JArr(a) == [t |-> "arr", a |-> a]
JObj(o) == [t |-> "obj", o |-> o]

Absent == [t |-> "absent"]

\* x.k of JavaScript for a parsed value x that is not null: undefined unless x
\* is an object with the key k
Undefined == [t |-> "undefined"]
Get(x, k) == IF x.t = "obj" /\ k \in DOMAIN x.o THEN x.o[k] ELSE Undefined

Truthy(x) ==
    CASE x.t \in {"undefined", "null"} -> FALSE
      [] x.t = "bool" -> x.b
      [] x.t = "num" -> x.n # 0
      [] x.t = "str" -> x.s # <<>>
      [] OTHER -> TRUE

IsArray(x) == x.t = "arr"

----------------------------------------------------------------------------
(* MatchState *)

EmptyState == [players |-> <<>>, isGameStarted |-> FALSE, statHistory |-> <<>>]

\* the same with the name kept as it was typed
NewPlayerUntrimmed(name) ==
    [name |-> name, winners |-> 0, unforced_errors |-> 0, score |-> 0]

NewPlayer(name) ==
    [name |-> Trim(name), winners |-> 0, unforced_errors |-> 0, score |-> 0]

PlayerToJson(p) ==
    JObj([name |-> JStr(p.name), winners |-> JNum(p.winners),
          unforced_errors |-> JNum(p.unforced_errors), score |-> JNum(p.score)])

EntryToJson(e) ==
    JObj([point |-> JNum(e.point), playerIndex |-> JNum(e.playerIndex),
          stat |-> JStr(Str(e.stat)), timestamp |-> JNum(e.timestamp)])

\* JSON.stringify(matchState)
Stringify(ms) ==
    JObj([players |-> JArr(Map(PlayerToJson, ms.players)),
          isGameStarted |-> JBool(ms.isGameStarted),
          statHistory |-> JArr(Map(EntryToJson, ms.statHistory))])

JsonToPlayer(j) ==
    [name |-> j.o.name.s, winners |-> j.o.winners.n,
     unforced_errors |-> j.o.unforced_errors.n, score |-> j.o.score.n]

JsonToEntry(j) ==
    [point |-> j.o.point.n, playerIndex |-> j.o.playerIndex.n,
     stat |-> j.o.stat.s[1], timestamp |-> j.o.timestamp.n]

\* the MatchState object that JSON.parse builds from the text of a match state
ToState(j) ==
    [players |-> Map(JsonToPlayer, j.o.players.a),
     isGameStarted |-> j.o.isGameStarted.b,
     statHistory |-> Map(JsonToEntry, j.o.statHistory.a)]

----------------------------------------------------------------------------
(* Scoring *)

Stats == {"winners", "unforced_errors"}

\* the same with the sign of an unforced error lost
StatValueUnsigned(stat) == IF stat = "winners" THEN 2 ELSE 1

StatValue(stat) == IF stat = "winners" THEN 2 ELSE -1

\* { ...player, [stat]: player[stat] + 1, score: player.score + statValue }
BumpPlayer(player, stat) ==
    IF stat = "winners"
    THEN [player EXCEPT !.winners = @ + 1, !.score = @ + StatValue(stat)]
    ELSE [player EXCEPT !.unforced_errors = @ + 1, !.score = @ + StatValue(stat)]

\* the same numbering points from 0
NewEntryFromZero(prev, playerIndex, stat, now) ==
    [point |-> Len(prev.statHistory), playerIndex |-> playerIndex,
     stat |-> stat, timestamp |-> now]

NewEntry(prev, playerIndex, stat, now) ==
    [point |-> Len(prev.statHistory) + 1, playerIndex |-> playerIndex,
     stat |-> stat, timestamp |-> now]

\* the updater that incrementStat hands to setMatchState
incrementStat(prev, playerIndex, stat, now) ==
    [prev EXCEPT
        !.statHistory = Append(@, NewEntry(prev, playerIndex, stat, now)),
        !.players = [index \in 1..Len(prev.players) |->
                        IF index - 1 = playerIndex
                        THEN BumpPlayer(prev.players[index], stat)
                        ELSE prev.players[index]]]

keyMap ==
    ("1" :> [playerIndex |-> 0, stat |-> "winners"]) @@
    ("2" :> [playerIndex |-> 0, stat |-> "unforced_errors"]) @@
    ("3" :> [playerIndex |-> 1, stat |-> "winners"]) @@
    ("4" :> [playerIndex |-> 1, stat |-> "unforced_errors"]) @@
    ("5" :> [playerIndex |-> 2, stat |-> "winners"]) @@
    ("6" :> [playerIndex |-> 2, stat |-> "unforced_errors"]) @@
    ("7" :> [playerIndex |-> 3, stat |-> "winners"]) @@
    ("8" :> [playerIndex |-> 3, stat |-> "unforced_errors"])

\* the keys the user may press: the eight mapped ones and one that is not
Keys == DOMAIN keyMap \cup {"9"}

\* the values Date.now() may return
Timestamps == {1000}

----------------------------------------------------------------------------
(* Team aggregation *)

ZeroStats == [threw |-> FALSE, winners |-> 0, unforced_errors |-> 0, score |-> 0]

\* one step of the reduce; matchState.players[playerIndex].winners throws a
\* TypeError when the player is missing
AddPlayer(total, ms, playerIndex) ==
    IF total.threw \/ playerIndex + 1 > Len(ms.players)
    THEN [ZeroStats EXCEPT !.threw = TRUE]
    ELSE [threw |-> FALSE,
          winners |-> total.winners + ms.players[playerIndex + 1].winners,
          unforced_errors |->
              total.unforced_errors + ms.players[playerIndex + 1].unforced_errors,
          score |-> total.score + ms.players[playerIndex + 1].score]

getTeamStats(ms, teamIndex) ==
    IF ~ms.isGameStarted THEN ZeroStats
    ELSE LET teamPlayers == IF teamIndex = 0 THEN <<0, 1>> ELSE <<2, 3>>
         IN  AddPlayer(AddPlayer(ZeroStats, ms, teamPlayers[1]), ms, teamPlayers[2])

\* the started view calls getTeamStats(0) and getTeamStats(1) while rendering
RenderThrows(ms) ==
    ms.isGameStarted /\ (getTeamStats(ms, 0).threw \/ getTeamStats(ms, 1).threw)

----------------------------------------------------------------------------
(* Chart series *)

\* an object literal: the properties in the order they are written, a later
\* one replacing an earlier one with the same key
ObjectLiteral(pairs) ==
    [k \in {pairs[i][1] : i \in 1..Len(pairs)} |->
        LET last == CHOOSE i \in 1..Len(pairs) :
                        /\ pairs[i][1] = k
                        /\ \A j \in (i + 1)..Len(pairs) : pairs[j][1] # k
        IN  pairs[last][2]]

\* matchState.players[index]?.name || 'Player <index + 1>'
SeriesKey(ms, index) ==
    IF index + 1 <= Len(ms.players) /\ ms.players[index + 1].name # Blank
    THEN ms.players[index + 1].name
    ELSE <<Str("Player 1"), Str("Player 2"), Str("Player 3"),
           Str("Player 4")>>[index + 1]

\* the object pushed to data for a point and the running playerScores
ChartRow(ms, point, playerScores) ==
    ObjectLiteral(<< <<Str("point"), point>>,
                     <<Str("zero"), 0>>,
                     <<SeriesKey(ms, 0), playerScores[0]>>,
                     <<SeriesKey(ms, 1), playerScores[1]>>,
                     <<SeriesKey(ms, 2), playerScores[2]>>,
                     <<SeriesKey(ms, 3), playerScores[3]>> >>)

\* playerScores after the first n entries of the forEach; only the indices
\* 0..3 are read
RECURSIVE ScoresAfter(_, _)
ScoresAfter(ms, n) ==
    IF n = 0 THEN [index \in 0..3 |-> 0]
    ELSE LET entry == ms.statHistory[n]
             statValue == IF entry.stat = "winners" THEN 2 ELSE -1
             playerScores == ScoresAfter(ms, n - 1)
         IN  [index \in 0..3 |->
                 IF index = entry.playerIndex THEN playerScores[index] + statValue
                                              ELSE playerScores[index]]

getChartData(ms) ==
    [row \in 1..(Len(ms.statHistory) + 1) |->
        IF row = 1 THEN ChartRow(ms, 0, ScoresAfter(ms, 0))
        ELSE ChartRow(ms, ms.statHistory[row - 1].point, ScoresAfter(ms, row - 1))]

----------------------------------------------------------------------------
(* Export and import *)

\* the same with the key of the match state misspelt
ExportTextMisspelt(ms, now) ==
    JObj([matchstate |-> Stringify(ms),
          timestamp |-> JStr(Str(ToString(now))),
          version |-> JStr(Str("1.0"))])

\* JSON.stringify({ matchState, timestamp, version: '1.0' }, null, 2)
ExportText(ms, now) ==
    JObj([matchState |-> Stringify(ms),
          timestamp |-> JStr(Str(ToString(now))),
          version |-> JStr(Str("1.0"))])

\* the same taking over the players only
ImportOutcomePlayersOnly(text) ==
    IF text = Garbage THEN [kind |-> "error"]
    ELSE IF text = JNull THEN [kind |-> "error"]
    ELSE LET ms == Get(text, "matchState")
         IN  IF Truthy(ms) /\ Truthy(Get(ms, "players"))
                /\ IsArray(Get(ms, "statHistory"))
             THEN [kind |-> "accepted",
                   state |-> [ToState(ms) EXCEPT !.statHistory = <<>>]]
             ELSE [kind |-> "invalid"]

\* what reader.onload decides for the text of a file
ImportOutcome(text) ==
    IF text = Garbage THEN [kind |-> "error"]        \* JSON.parse throws
    ELSE IF text = JNull THEN [kind |-> "error"]     \* null.matchState throws
    ELSE LET ms == Get(text, "matchState")
         IN  IF Truthy(ms) /\ Truthy(Get(ms, "players"))
                /\ IsArray(Get(ms, "statHistory"))
             THEN [kind |-> "accepted", state |-> ToState(ms)]
             ELSE [kind |-> "invalid"]

----------------------------------------------------------------------------
(* The environment: names typed, files on disk, earlier sessions *)

\* what the user may type into each of the four name inputs
NameChoices ==
    << {<<" ", "A", " ">>, Str(" ")},
       {Str("B")},
       {Str("C")},
       {Str("D")} >>

\* the names typed in a session that looks at the chart
ChartNames ==
    << {Str("A"), Str("point")},
       {Str("B"), Str("zero")},
       {Str("C"), Str("A")},
       {Str("D")} >>

\* a match as startMatch and one incrementStat leave it
SavedMatch ==
    incrementStat([players |-> Map(NewPlayer, <<Str("W"), Str("X"), Str("Y"), Str("Z")>>),
                   isGameStarted |-> TRUE, statHistory |-> <<>>],
                  0, "winners", 1000)

\* hand-edited match states that pass the structural test of the import
SkewedMatch ==
    [players |-> <<[name |-> Str("Q"), winners |-> 0, unforced_errors |-> 0,
                    score |-> 5]>>,
     isGameStarted |-> FALSE,
     statHistory |-> <<[point |-> 7, playerIndex |-> 0, stat |-> "winners",
                        timestamp |-> 1000]>>]

ShortMatch ==
    [players |-> Map(NewPlayer, <<Str("W"), Str("X")>>),
     isGameStarted |-> TRUE, statHistory |-> <<>>]

BrokenFile == Garbage
NullFile == JNull
NoMatchFile == JObj([version |-> JStr(Str("1.0"))])
NoPlayersFile ==
    JObj([matchState |-> JObj([isGameStarted |-> JBool(TRUE),
                               statHistory |-> JArr(<<>>)])])
BadHistoryFile ==
    JObj([matchState |-> JObj([players |-> JArr(<<>>),
                               isGameStarted |-> JBool(FALSE),
                               statHistory |-> JStr(Str("none"))])])
GoodFile == ExportText(SavedMatch, 1000)
LaterFile ==
    ExportText(incrementStat(SavedMatch, 2, "unforced_errors", 1000), 1000)
SkewedFile == ExportText(SkewedMatch, 1000)
ShortFile == ExportText(ShortMatch, 1000)

\* a file on disk: its text and, for a file that exportMatchData wrote, the
\* match state it was written from
OnDisk(text) ==
    [text |-> text, exported |-> FALSE, source |-> EmptyState, stale |-> FALSE]
Exported(text, ms) ==
    [text |-> text, exported |-> TRUE, source |-> ms, stale |-> FALSE]

Files == {BrokenFile, NullFile, NoMatchFile, NoPlayersFile, BadHistoryFile,
          GoodFile, SkewedFile, ShortFile}

\* two exports of the same match, the second made one point later
OverlapFiles == {GoodFile, LaterFile}

\* what an earlier session may have left under 'padelMatch'
InitialStores == {Absent, Stringify(EmptyState), Stringify(SavedMatch)}

NoImport == [done |-> FALSE, confirmed |-> FALSE, before |-> Absent]

----------------------------------------------------------------------------
(* Initial state: the first render of Home is committed, its effects wait *)

Init ==
    /\ matchState = EmptyState
    /\ playerNames = <<Blank, Blank, Blank, Blank>>
    /\ store \in InitialStores
    /\ rendered = EmptyState
    /\ listening = FALSE
    /\ handlerStarted = FALSE
    /\ mounted = FALSE
    /\ dirty = FALSE
    /\ crashed = FALSE
    /\ reads = <<>>
    /\ message = "none"
    /\ download = Absent
    /\ origin = "init"
    /\ appended = 0
    /\ lastImport = NoImport

----------------------------------------------------------------------------
(* React: renders and passive effects *)

\* localStorage.setItem('padelMatch', value) and removeItem('padelMatch') on
\* a store that holds st
\* the same with the write lost
SetItemDropped(st, value) == st

SetItem(st, value) == value
RemoveItem(st) == Absent

\* the three useEffect callbacks after the first render, in order: the load,
\* the mirror (it writes the matchState of the render it belongs to, the empty
\* one) and the registration of handleKeyPress with that render's
\* isGameStarted
MountEffects ==
    /\ ~mounted /\ ~crashed
    /\ IF store # Absent
       THEN /\ matchState' = ToState(store)
            /\ dirty' = TRUE
            /\ origin' = "load"
       ELSE UNCHANGED <<matchState, dirty, origin>>
    /\ UNCHANGED appended
    /\ store' = SetItem(store, Stringify(rendered))
    /\ listening' = TRUE
    /\ handlerStarted' = rendered.isGameStarted
    /\ mounted' = TRUE
    /\ UNCHANGED <<playerNames, rendered, crashed, reads, message, download,
                   lastImport>>

\* the render of matchState ms, with the store holding st, and the effects
\* that follow it: the mirror writes ms, the listener is registered anew when
\* isGameStarted changed.  A render that throws takes the component tree
\* down: the listener is removed and nothing of Home is on screen any more
Commit(ms, st) ==
    /\ dirty' = FALSE
    /\ IF RenderThrows(ms)
       THEN /\ crashed' = TRUE
            /\ listening' = FALSE
            /\ handlerStarted' = FALSE
            /\ rendered' = EmptyState
            /\ store' = st
       ELSE /\ rendered' = ms
            /\ store' = SetItem(st, Stringify(ms))
            /\ handlerStarted' = ms.isGameStarted
            /\ UNCHANGED <<crashed, listening>>

\* a render scheduled by a state update made outside a user event
Render ==
    /\ mounted /\ dirty /\ ~crashed
    /\ Commit(matchState, store)
    /\ UNCHANGED <<matchState, playerNames, mounted, reads, message, download,
                   origin, appended, lastImport>>

\* a user event that called setMatchState(ms) and left the store holding st:
\* React renders and runs the effects before the next event
Flush(ms, st) ==
    /\ matchState' = ms
    /\ Commit(ms, st)

\* the user clicks and types on the view that shows the current state: such
\* events are taken once a pending render is on screen.  A key can be pressed
\* at any time, the listener is on window.
UserReady == mounted /\ ~crashed /\ ~dirty

\* the next thing the user does closes the dialog of the last import, which is
\* then no longer the latest event; a file just exported is chosen for import
\* right away or not at all
Dismiss == message' = "none" /\ lastImport' = NoImport /\ download' = Absent

----------------------------------------------------------------------------
(* Handlers *)

\* onChange of name input i (the inputs exist in the not-started view only)
TypeName(i, v) ==
    /\ UserReady /\ ~rendered.isGameStarted
    /\ playerNames[i] # v
    /\ playerNames' = [playerNames EXCEPT ![i] = v]
    /\ Dismiss
    /\ UNCHANGED <<matchState, store, rendered, listening, handlerStarted,
                   mounted, dirty, crashed, reads, origin, appended>>

NamesValid(names) == \A i \in 1..Len(names) : Trim(names[i]) # Blank

StartedWith(names) ==
    [players |-> Map(NewPlayer, names), isGameStarted |-> TRUE,
     statHistory |-> <<>>]

startMatch ==
    /\ UserReady /\ ~rendered.isGameStarted
    /\ IF NamesValid(playerNames)
       THEN /\ Flush(StartedWith(playerNames), store)
            /\ origin' = "start"
            /\ appended' = 0
            /\ Dismiss
            /\ UNCHANGED <<playerNames, mounted, reads>>
       ELSE UNCHANGED vars

\* a click on a stat button of the started view, which shows one pair of
\* buttons per player of the state it rendered
ClickStat(playerIndex, stat) ==
    /\ UserReady /\ rendered.isGameStarted
    /\ playerIndex < Len(rendered.players)
    /\ Len(matchState.statHistory) < MaxHistory
    /\ \E now \in Timestamps :
           Flush(incrementStat(matchState, playerIndex, stat, now), store)
    /\ appended' = appended + 1
    /\ Dismiss
    /\ UNCHANGED <<playerNames, mounted, reads, origin>>

\* a keydown on window, handled by the handleKeyPress registered last
handleKeyPress(key) ==
    /\ mounted /\ ~crashed /\ listening
    /\ IF handlerStarted /\ key \in DOMAIN keyMap
       THEN /\ Len(matchState.statHistory) < MaxHistory
            /\ \E now \in Timestamps :
                   Flush(incrementStat(matchState, keyMap[key].playerIndex,
                                       keyMap[key].stat, now), store)
            /\ appended' = appended + 1
            /\ Dismiss
            /\ UNCHANGED <<playerNames, mounted, reads, origin>>
       ELSE UNCHANGED vars

resetMatch(confirm) ==
    /\ UserReady /\ rendered.isGameStarted
    /\ IF confirm
       THEN /\ Flush(EmptyState, RemoveItem(store))
            /\ playerNames' = <<Blank, Blank, Blank, Blank>>
            /\ origin' = "reset"
            /\ appended' = 0
            /\ Dismiss
            /\ UNCHANGED <<mounted, reads>>
       ELSE UNCHANGED vars

exportMatchData ==
    /\ UserReady /\ rendered.isGameStarted
    /\ \E now \in Timestamps :
           download' = Exported(ExportText(rendered, now), rendered)
    /\ message' = "none"
    /\ lastImport' = NoImport
    /\ UNCHANGED <<matchState, playerNames, store, rendered, listening,
                   handlerStarted, mounted, dirty, crashed, reads, origin,
                   appended>>

\* onChange of the file input: a new FileReader is made and the read of the
\* chosen file is requested
readAsText(file) ==
    /\ UserReady /\ rendered.isGameStarted
    /\ reads' = Append(reads, file)
    /\ Dismiss
    /\ UNCHANGED <<matchState, playerNames, store, rendered, listening,
                   handlerStarted, mounted, dirty, crashed, origin, appended>>

importMatchData(file) == Len(reads) < MaxReads /\ readAsText(file)

\* the same while earlier reads are in flight
importOverlapping(file) == Len(reads) < MaxOverlap /\ readAsText(file)

Remove(s, i) == SubSeq(s, 1, i - 1) \o SubSeq(s, i + 1, Len(s))

\* read i completes: the reads requested before it have been overtaken (a
\* note of the model, the code keeps no such record)
Overtake(s, i) ==
    [k \in 1..Len(s) |-> IF k < i THEN [s[k] EXCEPT !.stale = TRUE] ELSE s[k]]

\* reader.onload for read i, after which the reads of rest are in flight;
\* confirm is the user's answer to window.confirm, which is asked for an
\* accepted file only.  The setMatchState of an accepted file is made outside
\* a user event: its render is scheduled.
Complete(i, confirm, rest) ==
    /\ ~crashed
    /\ i \in 1..Len(reads)
    /\ reads' = rest
    /\ LET out == ImportOutcome(reads[i].text)
       IN  CASE out.kind = "accepted" ->
                    /\ matchState' = out.state
                    /\ dirty' = TRUE
                    /\ store' = IF confirm THEN SetItem(store, Stringify(out.state))
                                        ELSE store
                    /\ message' = "imported"
                    /\ origin' = "import"
                    /\ appended' = 0
                    /\ lastImport' = [done |-> TRUE, confirmed |-> confirm,
                                      before |-> store]
             [] out.kind = "invalid" ->
                    /\ confirm
                    /\ message' = "invalid"
                    /\ UNCHANGED <<matchState, dirty, store, origin, appended,
                                   lastImport>>
             [] OTHER ->
                    /\ confirm
                    /\ message' = "error"
                    /\ UNCHANGED <<matchState, dirty, store, origin, appended,
                                   lastImport>>
    /\ download' = Absent
    /\ UNCHANGED <<playerNames, rendered, listening, handlerStarted, mounted,
                   crashed>>

onload(i, confirm) == Complete(i, confirm, Remove(reads, i))

\* the same in a session of overlapping imports, where it is noted on the
\* reads requested earlier that they have been overtaken
onloadOvertaking(i, confirm) ==
    Complete(i, confirm, Remove(Overtake(reads, i), i))

----------------------------------------------------------------------------
(* Specification *)

Next ==
    \/ MountEffects
    \/ Render
    \/ \E i \in 1..4 : \E v \in NameChoices[i] \cup {Blank} : TypeName(i, v)
    \/ startMatch
    \/ \E playerIndex \in 0..3 : \E stat \in Stats : ClickStat(playerIndex, stat)
    \/ \E key \in Keys : handleKeyPress(key)
    \/ \E confirm \in BOOLEAN : resetMatch(confirm)
    \/ \E text \in Files : importMatchData(OnDisk(text))
    \/ \E i \in 1..MaxReads : \E confirm \in BOOLEAN : onload(i, confirm)

Spec == Init /\ [][Next]_vars

\* Export and re-import: a session that starts from an empty store, in which
\* the only file chosen for import is the one exportMatchData just produced,
\* one round trip at a time
ImportExported == reads = <<>> /\ download # Absent /\ importMatchData(download)

InitRoundTrip == Init /\ store = Absent

NextRoundTrip ==
    \/ MountEffects
    \/ Render
    \/ \E i \in 1..4 : \E v \in NameChoices[i] : TypeName(i, v)
    \/ startMatch
    \/ \E playerIndex \in 0..3 : \E stat \in Stats : ClickStat(playerIndex, stat)
    \/ exportMatchData
    \/ ImportExported
    \/ \E i \in 1..MaxReads : \E confirm \in BOOLEAN : onload(i, confirm)

SpecRoundTrip == InitRoundTrip /\ [][NextRoundTrip]_vars

\* The chart: a session that starts from an empty store, in which matches
\* are started and scored on with the names of ChartNames
NextChart ==
    \/ MountEffects
    \/ \E i \in 1..4 : \E v \in ChartNames[i] : TypeName(i, v)
    \/ startMatch
    \/ \E playerIndex \in 0..3 : \E stat \in Stats : ClickStat(playerIndex, stat)

SpecChart == InitRoundTrip /\ [][NextChart]_vars

\* Overlapping imports: a session that starts from an empty store, in which
\* a second file may be chosen while the read of the first is in flight
NextOverlap ==
    \/ MountEffects
    \/ Render
    \/ \E i \in 1..4 : \E v \in NameChoices[i] : TypeName(i, v)
    \/ startMatch
    \/ \E text \in OverlapFiles : importOverlapping(OnDisk(text))
    \/ \E i \in 1..MaxOverlap : \E confirm \in BOOLEAN :
           onloadOvertaking(i, confirm)

SpecOverlap == InitRoundTrip /\ [][NextOverlap]_vars

----------------------------------------------------------------------------
(* Properties *)

RECURSIVE SumOver(_, _)
SumOver(f(_), s) == IF s = <<>> THEN 0 ELSE f(Head(s)) + SumOver(f, Tail(s))

PlayerScore(p) == p.score
PlayerEvents(p) == p.winners + p.unforced_errors

\* the scoring rule folded over a log from a roster: winners add 1 to the
\* winners counter and 2 to the score, unforced errors add 1 to their counter
\* and take 1 from the score
RECURSIVE projectAll(_, _)
projectAll(roster, log) ==
    IF log = <<>> THEN roster
    ELSE LET e == log[Len(log)]
             before == projectAll(roster, SubSeq(log, 1, Len(log) - 1))
         IN  [k \in 1..Len(before) |->
                 IF k # e.playerIndex + 1 THEN before[k]
                 ELSE IF e.stat = "winners"
                      THEN [before[k] EXCEPT !.winners = @ + 1, !.score = @ + 2]
                      ELSE [before[k] EXCEPT !.unforced_errors = @ + 1,
                                             !.score = @ - 1]]

ZeroRoster(players) ==
    [k \in 1..Len(players) |->
        [name |-> players[k].name, winners |-> 0, unforced_errors |-> 0,
         score |-> 0]]

\* the text is JSON but has no matchState.players, or its statHistory is not
\* an array
LacksShape(text) ==
    /\ text # Garbage
    /\ \/ Get(Get(text, "matchState"), "players") = Undefined
       \/ ~IsArray(Get(Get(text, "matchState"), "statHistory"))

\* C1: in every reachable match state every player has
\* score = 2 * winners - unforced_errors.
ScoreConsistent ==
    \A k \in 1..Len(matchState.players) :
        matchState.players[k].score =
            2 * matchState.players[k].winners
              - matchState.players[k].unforced_errors

\* C2: after a confirmed resetMatch and its effects, nothing is stored under
\* 'padelMatch' and the match state is the empty, not started one.
ResetClearsStore ==
    origin = "reset" => store = Absent /\ matchState = EmptyState

\* C3: after an accepted import whose confirmation was declined, once the
\* render and its effects have run, the store still holds what it held before
\* the import.
DeclinedImportNotStored ==
    (lastImport.done /\ ~lastImport.confirmed /\ ~dirty /\ ~crashed)
        => store = lastImport.before

\* C4: the read of a JSON file without matchState.players, or with a
\* statHistory that is no array, ends with the 'Invalid file format' message
\* and changes neither the match state nor the store.
InvalidFormatRejected ==
    [][\A i \in 1..MaxReads : \A confirm \in BOOLEAN :
          (onload(i, confirm) /\ LacksShape(reads[i].text))
              => /\ message' = "invalid"
                 /\ matchState' = matchState
                 /\ store' = store]_vars

\* C5: the read of a file that exportMatchData wrote from a match state S is
\* accepted and installs a match state equal to S.
ExportImportRoundTrip ==
    [][\A i \in 1..MaxReads : \A confirm \in BOOLEAN :
          (onload(i, confirm) /\ reads[i].exported)
              => /\ message' = "imported"
                 /\ matchState' = reads[i].source]_vars

\* an exported match with a point logged was read back after the match had
\* moved on
RoundTripDone ==
    /\ lastImport.done
    /\ Len(matchState.statHistory) >= 1
    /\ Len(rendered.statHistory) > Len(matchState.statHistory)

\* C6: after N incrementStat calls on a freshly started match the log has N
\* entries and their point fields are 1, 2, ..., N in order.
PointsAreGapless ==
    origin = "start" =>
        /\ Len(matchState.statHistory) = appended
        /\ \A k \in 1..Len(matchState.statHistory) :
               matchState.statHistory[k].point = k

TwoPointsLogged == origin = "start" /\ appended = 2

\* C7: in every reachable match state the length of statHistory is the sum
\* over the players of winners + unforced_errors.
HistoryLengthMatches ==
    Len(matchState.statHistory) = SumOver(PlayerEvents, matchState.players)

\* C8: in every reachable match state that is not started, players and
\* statHistory are empty.
NotStartedIsEmpty ==
    ~matchState.isGameStarted =>
        matchState.players = <<>> /\ matchState.statHistory = <<>>

\* C9: in a match started by startMatch and advanced by incrementStat only,
\* the stored players equal the fold of the scoring rule over statHistory
\* from the all-zero roster, after every step.
FoldConsistent ==
    origin = "start" =>
        matchState.players =
            projectAll(ZeroRoster(matchState.players), matchState.statHistory)

BothKindsLogged ==
    /\ origin = "start"
    /\ \E k \in 1..Len(matchState.players) : matchState.players[k].winners > 0
    /\ \E k \in 1..Len(matchState.players) :
           matchState.players[k].unforced_errors > 0

\* C10: in every reachable match state getTeamStats(0).score plus
\* getTeamStats(1).score is the sum of the scores of all players, and neither
\* call fails.
TeamScoresSumToTotal ==
    /\ ~getTeamStats(matchState, 0).threw
    /\ ~getTeamStats(matchState, 1).threw
    /\ getTeamStats(matchState, 0).score + getTeamStats(matchState, 1).score
           = SumOver(PlayerScore, matchState.players)

\* C11: after a start, a scoring action, a confirmed reset or an accepted
\* import, once the render and the effects it triggers have run, the store
\* holds the serialization of the current match state.
MirrorOnWrite ==
    (origin \in {"start", "reset", "import"} /\ ~dirty /\ ~crashed)
        => store = Stringify(matchState)

\* an imported match was scored on and mirrored
ImportedThenScored ==
    origin = "import" /\ appended = 1 /\ ~dirty /\ ~crashed

\* t is s without its leading and trailing white space
Stripped(s, t) ==
    /\ t = <<>> \/ (t[1] # " " /\ t[Len(t)] # " ")
    /\ \E a \in 0..Len(s) :
           /\ a + Len(t) <= Len(s)
           /\ \A k \in 1..Len(s) :
                  IF k > a /\ k <= a + Len(t) THEN s[k] = t[k - a] ELSE s[k] = " "

\* C12: startMatch leaves the match state unchanged when one of the four
\* names is empty after trimming; otherwise it installs a started state of
\* four players with the trimmed names in entry order, all counters and
\* scores 0, and an empty statHistory.
StartMatchContract ==
    [][startMatch =>
          IF \E i \in 1..4 : Stripped(playerNames[i], <<>>)
          THEN matchState' = matchState
          ELSE /\ matchState'.isGameStarted
               /\ matchState'.statHistory = <<>>
               /\ Len(matchState'.players) = 4
               /\ \A i \in 1..4 :
                      /\ Stripped(playerNames[i], matchState'.players[i].name)
                      /\ matchState'.players[i].winners = 0
                      /\ matchState'.players[i].unforced_errors = 0
                      /\ matchState'.players[i].score = 0]_vars

\* a match was started from a name typed with white space around it
StartedFromPaddedName ==
    /\ origin = "start"
    /\ playerNames[1] = <<" ", "A", " ">>
    /\ matchState.players[1].name = Str("A")

\* the digit on a key
KeyNumber ==
    ("1" :> 1) @@ ("2" :> 2) @@ ("3" :> 3) @@ ("4" :> 4) @@ ("5" :> 5) @@
    ("6" :> 6) @@ ("7" :> 7) @@ ("8" :> 8) @@ ("9" :> 9)

\* C13: a key press changes nothing while the match is not started; while it
\* is started, key k of 1..8 makes one scoring action for player
\* (k - 1) div 2, winners for odd k and unforced_errors for even k, and any
\* other key changes nothing.
KeyboardAdapter ==
    [][\A key \in Keys :
          handleKeyPress(key) =>
              IF matchState.isGameStarted /\ KeyNumber[key] \in 1..8
              THEN LET log == matchState'.statHistory
                   IN  /\ Len(log) = Len(matchState.statHistory) + 1
                       /\ log[Len(log)].playerIndex = (KeyNumber[key] - 1) \div 2
                       /\ log[Len(log)].stat =
                              IF KeyNumber[key] % 2 = 1 THEN "winners"
                                                       ELSE "unforced_errors"
              ELSE matchState' = matchState]_vars

PairwiseDistinct(players) ==
    \A k, l \in 1..Len(players) : k # l => players[k].name # players[l].name

\* C14: for a match started by startMatch with four pairwise distinct names
\* and advanced by incrementStat, getChartData returns one row more than
\* statHistory has entries; row 0 has point 0 and 0 under every name; row i
\* has the point of entry i and under each name that player's score over the
\* first i entries; the last row shows the stored scores.
ChartSeries ==
    (origin = "start" /\ PairwiseDistinct(matchState.players)) =>
        LET data == getChartData(matchState)
            log == matchState.statHistory
            players == matchState.players
        IN  /\ Len(data) = Len(log) + 1
            /\ data[1][Str("point")] = 0
            /\ \A k \in 1..4 : data[1][players[k].name] = 0
            /\ \A i \in 1..Len(log) :
                   /\ data[i + 1][Str("point")] = log[i].point
                   /\ \A k \in 1..4 :
                          data[i + 1][players[k].name] =
                              projectAll(ZeroRoster(players), SubSeq(log, 1, i))[k].score
            /\ \A k \in 1..4 : data[Len(data)][players[k].name] = players[k].score

\* C19: for any four names accepted by startMatch, names equal to each other
\* or to 'zero' or 'point' included, every row of getChartData has zero = 0,
\* the first row has point = 0 and row i has point = i.
ChartAxisFields ==
    origin = "start" =>
        LET data == getChartData(matchState)
        IN  /\ \A row \in 1..Len(data) : data[row][Str("zero")] = 0
            /\ data[1][Str("point")] = 0
            /\ \A i \in 1..Len(matchState.statHistory) :
                   data[i + 1][Str("point")] = i

\* C15: when a read requested later has completed, the completion of a read
\* requested earlier changes neither the match state nor the store.
StaleReadIgnored ==
    [][\A i \in 1..MaxOverlap : \A confirm \in BOOLEAN :
          (onloadOvertaking(i, confirm) /\ reads[i].stale)
              => matchState' = matchState /\ store' = store]_vars

\* C16: in every reachable state of a started match there are exactly four
\* players, getTeamStats(0) and getTeamStats(1) return a value, and no render
\* has failed.
StartedHasFourPlayers ==
    /\ ~crashed
    /\ matchState.isGameStarted =>
           /\ Len(matchState.players) = 4
           /\ ~getTeamStats(matchState, 0).threw
           /\ ~getTeamStats(matchState, 1).threw

\* a step in which incrementStat(playerIndex, stat) is called, by a click or
\* by a key
ScoringStep(playerIndex, stat) ==
    \/ ClickStat(playerIndex, stat)
    \/ \E key \in DOMAIN keyMap :
           /\ keyMap[key] = [playerIndex |-> playerIndex, stat |-> stat]
           /\ handleKeyPress(key)

\* C17: incrementStat(i, kind) on a started match, i in 0..3, appends one
\* entry (playerIndex i, stat kind) to statHistory and keeps the earlier
\* entries; it adds 1 to player i's counter of that kind and 2 (winners) or
\* -1 (unforced_errors) to the score; player i's other counter and name, the
\* other players and isGameStarted stay as they were.
ScoringFrame ==
    [][\A i \in 0..3 : \A kind \in Stats :
          (matchState.isGameStarted /\ ScoringStep(i, kind)) =>
              LET old == matchState
                  new == matchState'
                  n == Len(old.statHistory)
              IN  /\ Len(new.statHistory) = n + 1
                  /\ SubSeq(new.statHistory, 1, n) = old.statHistory
                  /\ new.statHistory[n + 1].playerIndex = i
                  /\ new.statHistory[n + 1].stat = kind
                  /\ new.isGameStarted = old.isGameStarted
                  /\ Len(new.players) = Len(old.players)
                  /\ i + 1 <= Len(old.players)
                  /\ \A k \in 1..Len(old.players) :
                         k # i + 1 => new.players[k] = old.players[k]
                  /\ new.players[i + 1].name = old.players[i + 1].name
                  /\ IF kind = "winners"
                     THEN /\ new.players[i + 1].winners
                                = old.players[i + 1].winners + 1
                          /\ new.players[i + 1].unforced_errors
                                = old.players[i + 1].unforced_errors
                          /\ new.players[i + 1].score = old.players[i + 1].score + 2
                     ELSE /\ new.players[i + 1].unforced_errors
                                = old.players[i + 1].unforced_errors + 1
                          /\ new.players[i + 1].winners = old.players[i + 1].winners
                          /\ new.players[i + 1].score = old.players[i + 1].score - 1]_vars

\* the match state written in each of the files that pass the structural
\* test
Payload(text) ==
    CASE text = GoodFile -> SavedMatch
      [] text = SkewedFile -> SkewedMatch
      [] text = ShortFile -> ShortMatch

\* C18: when the read of an accepted file completes, the match state is
\* exactly the matchState of the file, whatever was done between the choice
\* of the file and the completion of the read.
ImportReplacesState ==
    [][\A i \in 1..MaxReads : \A confirm \in BOOLEAN :
          (onload(i, confirm) /\ reads[i].text \in {GoodFile, SkewedFile, ShortFile})
              => matchState' = Payload(reads[i].text)]_vars

\* the read of a started match completed on the not-started view: the match
\* on screen when the file was chosen has been reset since
ImportAfterReset ==
    /\ lastImport.done /\ ~crashed
    /\ ~rendered.isGameStarted
    /\ matchState.isGameStarted

\* C20: when the store holds a saved match at mount, the store holds nothing
\* but that match until the first user action and the match state becomes
\* that match; when nothing is stored, the match state stays the empty one.
StartupRestore ==
    /\ (origin = "load" /\ appended = 0) => store = Stringify(matchState)
    /\ (origin = "init" /\ mounted) => matchState = EmptyState

====
